---- MODULE Spec2Model ----
(***************************************************************************)
(* State machine of the route-planning front-end (App component and the    *)
(* route/geocoding services it calls).  Strings of the source that are not *)
(* ASCII are written here as ASCII glosses; the comment of each definition *)
(* gives the source line of the literal.                                   *)
(***************************************************************************)
EXTENDS Integers, Sequences, FiniteSets, TLC

VARIABLES
  locations,        \* useState<DeliveryLocation[]>            (part_000:19)
  optimizedRoute,   \* useState<RouteOptimizationResult|null>  (part_000:32)
  isCalculating,    \* useState(false)                         (part_000:46)
  importingStatus,  \* useState<string|null>(null)             (part_000:47)
  selectedId,       \* useState<string|null>(null)             (part_000:48)
  error,            \* useState<string|null>(null)             (part_000:49)
  storage,          \* localStorage[STORAGE_KEY]
  importTask,       \* the suspended handleImportOrders call, if any
  calcTask          \* the suspended handleCalculateRoute call, if any

vars == <<locations, optimizedRoute, isCalculating, importingStatus,
          selectedId, error, storage, importTask, calcTask>>

-----------------------------------------------------------------------------
(* Bounds of the exploration and program constants.                        *)

\* locations.length >= 30 (part_000:65)
MaxStops == 30
\* Spec: clicks and imports never make the list longer than this.
MaxLen == 3
\* Orders in one extraction result.
MaxOrders == 2
\* SpecLimit: imports are started only on lists of at most MaxStops + ImportSlack stops.
ImportSlack == 0
\* the legs of a routing response are explored up to this number
MaxLegs == 3

-----------------------------------------------------------------------------
(* Values.                                                                 *)

\* null of selectedId; also an id no stop ever carries
NoId == 0
\* an id the optimization service may return although no stop carries it
GhostId == NoId - 1
\* null of error
NoError == "null"
\* undefined optional field of a DeliveryLocation
Undefined == "undefined"

\* A string with the structure the code looks at: text, then a number
\* (NoNum: none), then a tail.  "abc 3 (x)" is [head "abc", num 3, tail "(x)"].
NoNum == 0 - 1
Str(h) == [head |-> h, num |-> NoNum, tail |-> ""]
EmptyStr == Str("")
\* undefined where a string may stand (customerName of a clicked stop)
UndefinedStr == [head |-> "undefined", num |-> NoNum, tail |-> "", absent |-> TRUE]

\* "คลังสินค้า (Start)" (part_000:74, :91)
DEPOT_NAME == Str("Depot (Start)")
\* "จุดส่งสินค้า" (part_000:74, :96, :97)
AUTO_PREFIX == "DeliveryPoint"
\* `จุดส่งสินค้า ${n}` (part_000:74, :97)
AutoName(n) == [head |-> AUTO_PREFIX, num |-> n, tail |-> ""]
\* loc.name.startsWith("จุดส่งสินค้า") (part_000:96)
startsWithAutoPrefix(name) == name.head = AUTO_PREFIX

\* 'ทั่วไป', the zone of a clicked non-depot stop (part_000:77); not the
\* "General" the extraction service is told to use (part_001:105)
ZONE_DEFAULT == "Thuapai"

\* a map click's coordinates, in 1e-4 degrees
ClickCoords == {[lat |-> 137000, lng |-> 1005500]}

\* null of optimizedRoute
NullRoute == [present |-> FALSE]

\* null of importingStatus, and its two messages (part_000:125, :133)
StatusNone == [msg |-> "null", n |-> 0]
StatusParsing == [msg |-> "parsing", n |-> 0]
StatusResolving(n) == [msg |-> "resolving", n |-> n]

\* error messages (part_000:66, :118, :181)
ERR_LIMIT == "limit: at most 30 stops"
ERR_CALC == "cannot calculate route"
ERR_IMPORT == "import failed"

IdleImport == [pc |-> "idle"]
IdleCalc == [pc |-> "idle"]

-----------------------------------------------------------------------------
(* Helpers.                                                                *)

RECURSIVE SeqToSet(_)
SeqToSet(s) == IF s = <<>> THEN {} ELSE {Head(s)} \cup SeqToSet(Tail(s))

\* l => l.id over a list of stops
IdsOf(locs) == [i \in 1..Len(locs) |-> locs[i].id]

IdSet(locs) == {locs[i].id : i \in 1..Len(locs)}

\* locations.filter(pred) with pred given as the set of kept positions
RECURSIVE FilterOutId(_, _)
FilterOutId(locs, id) ==
  IF locs = <<>> THEN <<>>
  ELSE IF Head(locs).id = id THEN FilterOutId(Tail(locs), id)
       ELSE <<Head(locs)>> \o FilterOutId(Tail(locs), id)

\* every id some part of the state still refers to
UsedIds ==
  IdSet(locations)
  \cup {selectedId}
  \cup (IF optimizedRoute.present THEN SeqToSet(optimizedRoute.optimizedOrder) ELSE {})
  \cup (IF importTask.pc \in {"geocoding", "delay"}
        THEN IdSet(importTask.newLocations) ELSE {})
  \cup (IF storage.present /\ storage.parses THEN IdSet(storage.locations) ELSE {})

\* generateId(): a fresh identifier (part_000:8-13); the least unused natural
generateId(used) ==
  CHOOSE i \in 1..(Cardinality(used) + 1) :
    i \notin used /\ \A j \in 1..(i - 1) : j \in used

\* the optional fields of a DeliveryLocation that the code leaves undefined
\* (part_000:306-310), and the undefined of each
OptionalFields == {"address", "customerName", "phoneNumber"}
Undef(f) == IF f = "customerName" THEN UndefinedStr ELSE Undefined

\* JSON.stringify of a stop (part_000:58): a field that is undefined has no key
JsonOfLocation(l) ==
  [f \in {g \in DOMAIN l : g \notin OptionalFields \/ l[g] # Undef(g)} |-> l[f]]

\* LocationOfJson with a missing phoneNumber read as the empty text
LocationOfJson_EmptyPhone(j) ==
  [id |-> j.id,
   name |-> j.name,
   coordinates |-> j.coordinates,
   isDepot |-> j.isDepot,
   zone |-> j.zone,
   address |-> IF "address" \in DOMAIN j THEN j.address ELSE Undefined,
   customerName |-> IF "customerName" \in DOMAIN j THEN j.customerName
                    ELSE UndefinedStr,
   phoneNumber |-> IF "phoneNumber" \in DOMAIN j THEN j.phoneNumber ELSE ""]

\* a stop read back from its JSON (part_000:23-24): a missing key reads as
\* undefined
LocationOfJson(j) ==
  [id |-> j.id,
   name |-> j.name,
   coordinates |-> j.coordinates,
   isDepot |-> j.isDepot,
   zone |-> j.zone,
   address |-> IF "address" \in DOMAIN j THEN j.address ELSE Undefined,
   customerName |-> IF "customerName" \in DOMAIN j THEN j.customerName
                    ELSE UndefinedStr,
   phoneNumber |-> IF "phoneNumber" \in DOMAIN j THEN j.phoneNumber ELSE Undefined]

\* localStorage without the key STORAGE_KEY (part_000:15)
Absent == [present |-> FALSE, parses |-> FALSE]
\* the key holds a text that JSON.parse rejects
Unparseable == [present |-> TRUE, parses |-> FALSE]

\* the persistence effect (part_000:52-62): runs after every render in which
\* locations or optimizedRoute got a new value, and writes the JSON text of
\* both under the key
Persisted(locs, route) ==
  [present |-> TRUE,
   parses |-> TRUE,
   locations |-> [i \in 1..Len(locs) |-> JsonOfLocation(locs[i])],
   optimizedRoute |-> route]

\* the initializer of locations (part_000:19-30)
InitLocations(savedData) ==
  IF savedData.present /\ savedData.parses
  THEN [i \in 1..Len(savedData.locations) |-> LocationOfJson(savedData.locations[i])]
  ELSE <<>>

\* the initializer of optimizedRoute (part_000:32-43)
InitRoute(savedData) ==
  IF savedData.present /\ savedData.parses
  THEN savedData.optimizedRoute
  ELSE NullRoute

\* UIFree with the import overlay left out
UIFree_CalcOnly == ~isCalculating

\* UIFree with the calculation overlay left out
UIFree_ImportOnly == importingStatus = StatusNone

\* the overlays shown while a flow is in flight cover the map and the sidebar
\* (part_000:233-256): no pointer event reaches them
UIFree == ~isCalculating /\ importingStatus = StatusNone

-----------------------------------------------------------------------------
(* Construction.                                                           *)

Init ==
  /\ locations = <<>>
  /\ optimizedRoute = NullRoute
  /\ isCalculating = FALSE
  /\ importingStatus = StatusNone
  /\ selectedId = NoId
  /\ error = NoError
  /\ storage = Persisted(<<>>, NullRoute)
  /\ importTask = IdleImport
  /\ calcTask = IdleCalc

-----------------------------------------------------------------------------
(* Stop registry handlers.                                                 *)

\* ClickLocation with the depot flag set on every stop
ClickLocation_AlwaysDepot(locs, newId, coords) ==
  [id |-> newId,
   name |-> IF Len(locs) = 0 THEN DEPOT_NAME ELSE AutoName(Len(locs)),
   coordinates |-> coords,
   isDepot |-> TRUE,
   zone |-> IF Len(locs) = 0 THEN "HQ" ELSE ZONE_DEFAULT,
   address |-> Undefined,
   customerName |-> UndefinedStr,
   phoneNumber |-> Undefined]

\* ClickLocation with the label numbered from the length of the list plus one
ClickLocation_OneBased(locs, newId, coords) ==
  LET isFirst == Len(locs) = 0
  IN [id |-> newId,
      name |-> IF isFirst THEN DEPOT_NAME ELSE AutoName(Len(locs) + 1),
      coordinates |-> coords,
      isDepot |-> isFirst,
      zone |-> IF isFirst THEN "HQ" ELSE ZONE_DEFAULT,
      address |-> Undefined,
      customerName |-> UndefinedStr,
      phoneNumber |-> Undefined]

\* the stop a map click creates (part_000:70-78)
ClickLocation(locs, newId, coords) ==
  LET isFirst == Len(locs) = 0
  IN [id |-> newId,
      name |-> IF isFirst THEN DEPOT_NAME ELSE AutoName(Len(locs)),
      coordinates |-> coords,
      isDepot |-> isFirst,
      zone |-> IF isFirst THEN "HQ" ELSE ZONE_DEFAULT,
      address |-> Undefined,
      customerName |-> UndefinedStr,
      phoneNumber |-> Undefined]

\* handleMapClick with the limit tested by > instead of >=
handleMapClick_OffByOne(coords) ==
  /\ IF Len(locations) > MaxStops
     THEN /\ error' = ERR_LIMIT
          /\ UNCHANGED <<locations, optimizedRoute, selectedId, storage>>
     ELSE /\ locations' = Append(locations,
                                 ClickLocation(locations, generateId(UsedIds), coords))
          /\ selectedId' = generateId(UsedIds)
          /\ optimizedRoute' = NullRoute
          /\ error' = NoError
          /\ storage' = Persisted(locations', optimizedRoute')
  /\ UNCHANGED <<isCalculating, importingStatus, importTask, calcTask>>

\* handleMapClick (part_000:64-84)
handleMapClick(coords) ==
  /\ IF Len(locations) >= MaxStops
     THEN /\ error' = ERR_LIMIT
          /\ UNCHANGED <<locations, optimizedRoute, selectedId, storage>>
     ELSE LET newId == generateId(UsedIds)
              newLocation == ClickLocation(locations, newId, coords)
          IN /\ locations' = Append(locations, newLocation)
             /\ selectedId' = newId
             /\ optimizedRoute' = NullRoute
             /\ error' = NoError
             /\ storage' = Persisted(locations', optimizedRoute')
  /\ UNCHANGED <<isCalculating, importingStatus, importTask, calcTask>>

\* PromoteFirst without the renaming of line 91
PromoteFirst_KeepsName(locs, newLocs, id) ==
  IF Len(newLocs) > 0 /\ locs[1].id = id
  THEN [newLocs EXCEPT ![1].isDepot = TRUE]
  ELSE newLocs

\* the promotion of the new first stop (part_000:89-92)
PromoteFirst(locs, newLocs, id) ==
  IF Len(newLocs) > 0 /\ locs[1].id = id
  THEN [newLocs EXCEPT ![1].isDepot = TRUE, ![1].name = DEPOT_NAME]
  ELSE newLocs

\* Renumber with the index counted from one
Renumber_OneBased(newLocs) ==
  [i \in 1..Len(newLocs) |->
     IF newLocs[i].isDepot THEN newLocs[i]
     ELSE IF startsWithAutoPrefix(newLocs[i].name)
          THEN [newLocs[i] EXCEPT !.name = AutoName(i)]
          ELSE newLocs[i]]

\* the renumbering map (part_000:94-100); idx is zero-based
Renumber(newLocs) ==
  [i \in 1..Len(newLocs) |->
     IF newLocs[i].isDepot THEN newLocs[i]
     ELSE IF startsWithAutoPrefix(newLocs[i].name)
          THEN [newLocs[i] EXCEPT !.name = AutoName(i - 1)]
          ELSE newLocs[i]]

\* handleRemoveLocation without the setOptimizedRoute(null) of line 103
handleRemoveLocation_KeepsRoute(id) ==
  /\ locations' = Renumber(PromoteFirst(locations, FilterOutId(locations, id), id))
  /\ selectedId' = IF selectedId = id THEN NoId ELSE selectedId
  /\ storage' = Persisted(locations', optimizedRoute)
  /\ UNCHANGED <<optimizedRoute, isCalculating, importingStatus, error,
                 importTask, calcTask>>

\* handleRemoveLocation without the test of line 102-104
handleRemoveLocation_KeepsSelection(id) ==
  /\ LET newLocations == FilterOutId(locations, id)
         reordered == Renumber(PromoteFirst(locations, newLocations, id))
     IN /\ locations' = reordered
        /\ optimizedRoute' = NullRoute
        /\ selectedId' = selectedId
        /\ storage' = Persisted(locations', optimizedRoute')
  /\ UNCHANGED <<isCalculating, importingStatus, error, importTask, calcTask>>

\* handleRemoveLocation (part_000:86-105)
handleRemoveLocation(id) ==
  /\ LET newLocations == FilterOutId(locations, id)
         reordered == Renumber(PromoteFirst(locations, newLocations, id))
     IN /\ locations' = reordered
        /\ optimizedRoute' = NullRoute
        /\ selectedId' = IF selectedId = id THEN NoId ELSE selectedId
        /\ storage' = Persisted(locations', optimizedRoute')
  /\ UNCHANGED <<isCalculating, importingStatus, error, importTask, calcTask>>

\* handleReset without the setSelectedId(null) of line 191
handleReset_KeepsSelection(confirmed) ==
  /\ IF confirmed
     THEN /\ locations' = <<>>
          /\ optimizedRoute' = NullRoute
          /\ error' = NoError
          /\ storage' = Persisted(<<>>, NullRoute)
          /\ UNCHANGED selectedId
     ELSE UNCHANGED <<locations, optimizedRoute, error, selectedId, storage>>
  /\ UNCHANGED <<isCalculating, importingStatus, importTask, calcTask>>

\* handleReset (part_000:186-194); confirmed is window.confirm's answer.  The
\* removeItem of line 192 is followed by the persistence effect of the render
\* that setLocations([]) causes, which writes the empty record.
handleReset(confirmed) ==
  /\ IF confirmed
     THEN /\ locations' = <<>>
          /\ optimizedRoute' = NullRoute
          /\ error' = NoError
          /\ selectedId' = NoId
          /\ storage' = Persisted(<<>>, NullRoute)
     ELSE UNCHANGED <<locations, optimizedRoute, error, selectedId, storage>>
  /\ UNCHANGED <<isCalculating, importingStatus, importTask, calcTask>>

\* onLocationSelect = setSelectedId (part_000:206, :226)
onLocationSelect(id) ==
  /\ selectedId' = id
  /\ UNCHANGED <<locations, optimizedRoute, isCalculating, importingStatus,
                 error, storage, importTask, calcTask>>

\* the error notification's close button (part_000:265)
dismissError ==
  /\ error # NoError
  /\ error' = NoError
  /\ UNCHANGED <<locations, optimizedRoute, isCalculating, importingStatus,
                 selectedId, storage, importTask, calcTask>>

-----------------------------------------------------------------------------
(* Route optimization (optimizeRouteWithGemini, part_001:133-257).         *)

\* locations.find(l => l.isDepot) || locations[0] (part_001:142)
RECURSIVE FindDepot(_)
FindDepot(locs) ==
  IF locs = <<>> THEN [id |-> NoId]
  ELSE IF Head(locs).isDepot THEN Head(locs) ELSE FindDepot(Tail(locs))

DepotOf(locs) ==
  IF FindDepot(locs).id # NoId THEN FindDepot(locs) ELSE locs[1]

Includes(seq, x) == \E i \in 1..Len(seq) : seq[i] = x

\* NormalizeOrder with the missing depot pushed to the end of the order
NormalizeOrder_AppendsDepot(order, depotId) ==
  IF Len(order) > 0 /\ order[1] # depotId
  THEN IF ~Includes(order, depotId) THEN Append(order, depotId) ELSE order
  ELSE order

\* the normalization of the returned order (part_001:234-238)
NormalizeOrder(order, depotId) ==
  IF Len(order) > 0 /\ order[1] # depotId
  THEN IF ~Includes(order, depotId) THEN <<depotId>> \o order ELSE order
  ELSE order

\* result.optimizedOrder.map(id => locations.find(...)).filter(l => !!l)
\* (part_001:245-247)
RECURSIVE FindById(_, _)
FindById(locs, id) ==
  IF locs = <<>> THEN <<>>
  ELSE IF Head(locs).id = id THEN <<Head(locs)>> ELSE FindById(Tail(locs), id)

RECURSIVE OrderedLocations(_, _)
OrderedLocations(order, locs) ==
  IF order = <<>> THEN <<>>
  ELSE FindById(locs, Head(order)) \o OrderedLocations(Tail(order), locs)

Reverse(s) == [i \in 1..Len(s) |-> s[Len(s) + 1 - i]]

\* what the optimization service may answer for these stops: it throws, or
\* returns an object with an order and, possibly, segments and stats
ServiceOrders(locs) ==
  LET ids == IdsOf(locs)
  IN {<<>>, ids, Reverse(ids), Append(Tail(ids), GhostId)}

ServiceResponses(locs) ==
  [optimizedOrder : ServiceOrders(locs), hasSegments : {TRUE}, hasStats : {TRUE}]
  \cup [optimizedOrder : {IdsOf(locs)}, hasSegments : BOOLEAN, hasStats : BOOLEAN]

\* the leg estimates of a response (part_001:198-211)
SegmentsOf(order) ==
  [i \in 1..(IF Len(order) > 0 THEN Len(order) - 1 ELSE 0) |->
     [fromId |-> order[i], toId |-> order[i + 1]]]

\* what fetchRouteData returns when no mirror gives a usable route
\* (part_001:91)
NoRouteData == [geometry |-> <<>>, steps |-> <<>>]

\* the routing mirrors in their order (part_001:7-10)
OSRM_SERVERS == <<"router.project-osrm.org", "routing.openstreetmap.de">>

\* `text`.trim() for the blank the code can leave at either end
RECURSIVE trim(_)
trim(text) ==
  IF Len(text) > 0 /\ SubSeq(text, 1, 1) = " " THEN trim(SubSeq(text, 2, Len(text)))
  ELSE IF Len(text) > 0 /\ SubSeq(text, Len(text), Len(text)) = " "
       THEN trim(SubSeq(text, 1, Len(text) - 1))
       ELSE text

\* translateManeuver (part_001:13-33); the Thai texts are given in English,
\* an undefined modifier is Undefined
translateManeuver(type, modifier, name) ==
  LET roadName == IF name # Undefined /\ name # "" THEN "onto " \o name ELSE ""
  IN IF type = "depart" THEN "Start driving " \o roadName
     ELSE IF type = "arrive" THEN "Destination reached"
     ELSE IF type = "roundabout"
          THEN "At the roundabout take exit "
               \o (IF modifier = Undefined THEN "" ELSE modifier) \o " " \o roadName
     ELSE IF modifier = "left" THEN "Turn left " \o roadName
     ELSE IF modifier = "right" THEN "Turn right " \o roadName
     ELSE IF modifier = "slight left" THEN "Keep slightly left " \o roadName
     ELSE IF modifier = "slight right" THEN "Keep slightly right " \o roadName
     ELSE IF modifier = "sharp left" THEN "Turn sharp left " \o roadName
     ELSE IF modifier = "sharp right" THEN "Turn sharp right " \o roadName
     ELSE IF modifier = "uturn" THEN "Make a U-turn"
     ELSE IF modifier = "straight" THEN "Go straight " \o roadName
     ELSE trim(type \o " " \o roadName)

\* one step of a leg as a NavigationStep (part_001:62-67)
LegStep(s) ==
  [instruction |-> translateManeuver(s.maneuver.type, s.maneuver.modifier, s.name),
   distanceMeters |-> s.distance,
   durationSeconds |-> s.duration,
   maneuver |-> s.maneuver]

\* the synthetic step "ถึงจุดส่งสินค้าที่ N" pushed behind a leg
\* (part_001:71-76); legIndex is zero-based
ArrivalMarker(legIndex) ==
  [instruction |-> "Arrived at delivery stop " \o ToString(legIndex + 1),
   distanceMeters |-> 0,
   durationSeconds |-> 0,
   maneuver |-> [type |-> "arrive", modifier |-> Undefined]]

\* the forEach over route.legs (part_001:60-79), from the leg at zero-based
\* legIndex on: a leg whose steps field is missing adds nothing, any other
\* leg adds its steps and, unless it is the last leg, the arrival marker
RECURSIVE FlattenFrom(_, _)
FlattenFrom(legs, legIndex) ==
  IF legIndex >= Len(legs) THEN <<>>
  ELSE LET leg == legs[legIndex + 1]
           added == IF leg.hasSteps
                    THEN [k \in 1..Len(leg.steps) |-> LegStep(leg.steps[k])]
                         \o (IF legIndex < Len(legs) - 1
                             THEN <<ArrivalMarker(legIndex)>>
                             ELSE <<>>)
                    ELSE <<>>
       IN added \o FlattenFrom(legs, legIndex + 1)

\* allSteps of a usable route (part_001:58-80)
AllSteps(route) == IF route.hasLegs THEN FlattenFrom(route.legs, 0) ELSE <<>>

\* what fetchRouteData returns for a usable route (part_001:52-82): the
\* geometry's [lng, lat] pairs as coordinates, and the flattened steps
RouteDataOf(route) ==
  [geometry |-> [i \in 1..Len(route.geometry.coordinates) |->
                   [lat |-> route.geometry.coordinates[i][2],
                    lng |-> route.geometry.coordinates[i][1]]],
   steps |-> AllSteps(route)]

\* steps of a routing response: a departure onto a named road, a left turn
\* onto a named road, a roundabout without modifier, an arrival, and a
\* manoeuvre of a type the translation does not know on a road without name
StepDepart ==
  [maneuver |-> [type |-> "depart", modifier |-> Undefined], name |-> "Sukhumvit",
   distance |-> 120, duration |-> 30]
StepLeft ==
  [maneuver |-> [type |-> "turn", modifier |-> "left"], name |-> "Rama IV",
   distance |-> 450, duration |-> 60]
StepRoundabout ==
  [maneuver |-> [type |-> "roundabout", modifier |-> Undefined], name |-> Undefined,
   distance |-> 80, duration |-> 20]
StepArrive ==
  [maneuver |-> [type |-> "arrive", modifier |-> Undefined], name |-> "",
   distance |-> 0, duration |-> 0]
StepMerge ==
  [maneuver |-> [type |-> "merge", modifier |-> Undefined], name |-> "",
   distance |-> 300, duration |-> 25]

\* a leg with these steps, and a leg whose steps field is missing
LegOf(steps) == [hasSteps |-> TRUE, steps |-> steps]
LegWithoutSteps == [hasSteps |-> FALSE, steps |-> <<>>]

\* the route a mirror returns for these stops when asked with steps=true:
\* the geometry through the stops, and one leg from each stop to the next
DrivenRoute(orderedLocations) ==
  [geometry |-> [coordinates |->
                   [i \in 1..Len(orderedLocations) |->
                      <<orderedLocations[i].coordinates.lng,
                        orderedLocations[i].coordinates.lat>>]],
   hasLegs |-> TRUE,
   legs |-> [i \in 1..(Len(orderedLocations) - 1) |-> LegOf(<<StepDepart, StepArrive>>)]]

\* what fetchRouteData returns (part_001:36-92): empty geometry and steps when
\* every mirror fails, else the route's geometry and its flattened steps
RouteDataOutcomes(orderedLocations) ==
  {NoRouteData, RouteDataOf(DrivenRoute(orderedLocations))}

\* the ways one mirror can fail (part_001:45-51, :84-86): response.ok false,
\* fetch or response.json() or the reading of the route throws, data.code is
\* not 'Ok', data.routes holds no route
MirrorFailures == {"http", "throw", "code", "noroute"}

\* what the request to one mirror may yield: a failure, or a usable route
MirrorOutcomes(orderedLocations) ==
  {[kind |-> f] : f \in MirrorFailures}
  \cup {[kind |-> "usable", route |-> DrivenRoute(orderedLocations)]}

\* the legs a routing response may hold: without steps field, with no step,
\* and with steps
LegSamples ==
  {LegWithoutSteps, LegOf(<<>>), LegOf(<<StepDepart, StepLeft>>),
   LegOf(<<StepRoundabout, StepArrive>>), LegOf(<<StepMerge>>)}

\* the usable routes a mirror may answer with: the response is whatever the
\* server sends, so any legs up to MaxLegs, or no legs field
AnyRoutes(orderedLocations) ==
  LET geometry == DrivenRoute(orderedLocations).geometry
  IN {[geometry |-> geometry, hasLegs |-> FALSE, legs |-> <<>>]}
     \cup {[geometry |-> geometry, hasLegs |-> TRUE, legs |-> legs] :
             legs \in UNION {[1..n -> LegSamples] : n \in 0..MaxLegs}}

AnyMirrorOutcomes(orderedLocations) ==
  {[kind |-> f] : f \in MirrorFailures}
  \cup {[kind |-> "usable", route |-> r] : r \in AnyRoutes(orderedLocations)}

\* the result object after parsing, stamping and normalizing
\* (part_001:230-242); pathPolyline and navigationInstructions are not set yet
NormalizedResult(resp, locs) ==
  [present |-> TRUE,
   optimizedOrder |-> NormalizeOrder(resp.optimizedOrder, DepotOf(locs).id),
   segments |-> IF resp.hasSegments THEN SegmentsOf(resp.optimizedOrder) ELSE <<>>,
   stats |-> [vehicleType |-> "PICKUP_CLOSED"],
   hasPath |-> FALSE,
   pathPolyline |-> <<>>,
   navigationInstructions |-> <<>>]

\* handleCalculateRoute without the length test of line 108
handleCalculateRoute_NoGuard ==
  /\ isCalculating' = TRUE
  /\ error' = NoError
  /\ calcTask' = [pc |-> "optimizing", locations |-> locations]
  /\ UNCHANGED <<locations, optimizedRoute, importingStatus, selectedId,
                 storage, importTask>>

\* handleCalculateRoute up to its await (part_000:107-114)
handleCalculateRoute ==
  IF Len(locations) < 2
  THEN UNCHANGED vars
  ELSE /\ isCalculating' = TRUE
       /\ error' = NoError
       /\ calcTask' = [pc |-> "optimizing", locations |-> locations]
       /\ UNCHANGED <<locations, optimizedRoute, importingStatus, selectedId,
                      storage, importTask>>

\* CalcFailed with the Route Result dropped
CalcFailed_ClearsRoute ==
  /\ error' = ERR_CALC
  /\ isCalculating' = FALSE
  /\ calcTask' = IdleCalc
  /\ optimizedRoute' = NullRoute
  /\ storage' = Persisted(locations, NullRoute)
  /\ UNCHANGED <<locations, importingStatus, selectedId, importTask>>

\* CalcFailed without the finally of line 119-121
CalcFailed_KeepsFlag ==
  /\ error' = ERR_CALC
  /\ calcTask' = IdleCalc
  /\ UNCHANGED <<locations, optimizedRoute, isCalculating, importingStatus,
                 selectedId, storage, importTask>>

\* the catch and finally of handleCalculateRoute (part_000:116-121)
CalcFailed ==
  /\ error' = ERR_CALC
  /\ isCalculating' = FALSE
  /\ calcTask' = IdleCalc
  /\ UNCHANGED <<locations, optimizedRoute, importingStatus, selectedId,
                 storage, importTask>>

\* setOptimizedRoute(result) and finally (part_000:115, :120)
CalcSucceeded(result) ==
  /\ optimizedRoute' = result
  /\ storage' = Persisted(locations, result)
  /\ isCalculating' = FALSE
  /\ calcTask' = IdleCalc
  /\ UNCHANGED <<locations, importingStatus, selectedId, error, importTask>>

\* the optimization call rejects, or its answer cannot be used
\* (part_001:185-232)
OptimizeThrows ==
  /\ calcTask.pc = "optimizing"
  /\ CalcFailed

\* OptimizeReturns with the result handed to the page before the road
\* routing is tried
OptimizeReturns_StoresEarly(resp) ==
  /\ calcTask.pc = "optimizing"
  /\ IF ~resp.hasStats
     THEN CalcFailed
     ELSE LET result == NormalizedResult(resp, calcTask.locations)
              ordered == OrderedLocations(result.optimizedOrder, calcTask.locations)
          IN IF Len(result.optimizedOrder) > 0 /\ Len(ordered) > 1
             THEN /\ calcTask' = [pc |-> "routing", locations |-> calcTask.locations,
                                  result |-> result, ordered |-> ordered,
                                  queried |-> <<OSRM_SERVERS[1]>>]
                  /\ optimizedRoute' = result
                  /\ storage' = Persisted(locations, result)
                  /\ UNCHANGED <<locations, isCalculating, importingStatus,
                                 selectedId, error, importTask>>
             ELSE CalcSucceeded(result)

\* the optimization call resolves (part_001:230-254); when the order is to be
\* routed the request to the first mirror is issued, queried being the
\* mirrors asked so far
OptimizeReturns(resp) ==
  /\ calcTask.pc = "optimizing"
  /\ IF ~resp.hasStats
     THEN CalcFailed
     ELSE LET result == NormalizedResult(resp, calcTask.locations)
              ordered == OrderedLocations(result.optimizedOrder, calcTask.locations)
          IN IF Len(result.optimizedOrder) > 0 /\ Len(ordered) > 1
             THEN /\ calcTask' = [pc |-> "routing", locations |-> calcTask.locations,
                                  result |-> result, ordered |-> ordered,
                                  queried |-> <<OSRM_SERVERS[1]>>]
                  /\ UNCHANGED <<locations, optimizedRoute, isCalculating,
                                 importingStatus, selectedId, error, storage,
                                 importTask>>
             ELSE CalcSucceeded(result)

\* RouteDataReturns with an empty geometry treated as a failed calculation
RouteDataReturns_FailsOnEmpty(data) ==
  /\ calcTask.pc = "routing"
  /\ IF data.geometry = <<>>
     THEN CalcFailed
     ELSE CalcSucceeded([calcTask.result EXCEPT !.hasPath = TRUE,
                                                !.pathPolyline = data.geometry,
                                                !.navigationInstructions = data.steps])

\* fetchRouteData resolves (part_001:250-256)
RouteDataReturns(data) ==
  /\ calcTask.pc = "routing"
  /\ CalcSucceeded([calcTask.result EXCEPT !.hasPath = TRUE,
                                           !.pathPolyline = data.geometry,
                                           !.navigationInstructions = data.steps])

\* MirrorAnswers with a mirror's HTTP failure ending the loop
MirrorAnswers_GivesUpOnHttp(outcome) ==
  /\ calcTask.pc = "routing"
  /\ IF outcome.kind = "usable"
     THEN RouteDataReturns(RouteDataOf(outcome.route))
     ELSE IF outcome.kind # "http" /\ Len(calcTask.queried) < Len(OSRM_SERVERS)
          THEN /\ calcTask' = [calcTask EXCEPT
                                 !.queried = Append(@, OSRM_SERVERS[Len(@) + 1])]
               /\ UNCHANGED <<locations, optimizedRoute, isCalculating,
                              importingStatus, selectedId, error, storage,
                              importTask>>
          ELSE RouteDataReturns(NoRouteData)

\* the request to the mirror asked last ends (part_001:42-87): a usable route
\* is returned; after a failure the next mirror is asked, or, behind the last
\* mirror, the empty result is returned
MirrorAnswers(outcome) ==
  /\ calcTask.pc = "routing"
  /\ IF outcome.kind = "usable"
     THEN RouteDataReturns(RouteDataOf(outcome.route))
     ELSE IF Len(calcTask.queried) < Len(OSRM_SERVERS)
          THEN /\ calcTask' = [calcTask EXCEPT
                                 !.queried = Append(@, OSRM_SERVERS[Len(@) + 1])]
               /\ UNCHANGED <<locations, optimizedRoute, isCalculating,
                              importingStatus, selectedId, error, storage,
                              importTask>>
          ELSE RouteDataReturns(NoRouteData)

-----------------------------------------------------------------------------
(* Order import (handleImportOrders, part_000:124-184).                    *)

\* "(ไม่พบพิกัด)" appended to a label (part_000:160)
UNRESOLVED_SUFFIX == " (not found)"
\* `จุดส่ง ${i+1}` (part_000:149); i is zero-based
ImportDefaultName(i) == [head |-> "DropPoint", num |-> i + 1, tail |-> ""]
\* the fallback reference point 13.7563, 100.5018 in 1e-4 degrees (part_000:161)
REF_LAT == 137563
REF_LNG == 1005018
\* Math.random()*0.01 in 1e-4 degrees lies in 0..99; the pairs of draws
\* (latitude, longitude) explored
JitterPairs == {<<0, 99>>}
\* coordinates the geocoding service may return
GeoCoords == {[lat |-> 138000, lng |-> 1006000]}

\* the orders the extraction service may return (part_001:114-126): with a
\* customer name, and with an empty one
NamedOrder ==
  [customerName |-> Str("Somchai"), phoneNumber |-> "0810000000",
   address |-> "addr A", zone |-> "Bang Na"]
UnnamedOrder ==
  [customerName |-> EmptyStr, phoneNumber |-> Undefined,
   address |-> "addr B", zone |-> "General"]

\* an order whose customer name begins with the text of the auto-numbered
\* labels, as in "จุดส่งสินค้ากลาง"
PrefixedOrder ==
  [customerName |-> [head |-> AUTO_PREFIX, num |-> NoNum, tail |-> "Central"],
   phoneNumber |-> "0820000000", address |-> "addr C", zone |-> "Lat Krabang"]

\* extraction results: every list of up to MaxOrders of these orders
OrderLists == UNION {[1..n -> {NamedOrder, UnnamedOrder}] : n \in 0..MaxOrders}

\* extraction results of up to MaxOrders orders with every kind of customer name
AnyNameOrderLists ==
  UNION {[1..n -> {NamedOrder, UnnamedOrder, PrefixedOrder}] : n \in 0..MaxOrders}

\* extraction results whose orders all carry a customer name
NamedOrderLists == UNION {[1..n -> {NamedOrder}] : n \in 0..MaxOrders}

\* what one geocoding request may do (part_000:143-171): return a match,
\* return no match, or fail (fetch or response.json() throws)
GeocodeOutcomes ==
  {[kind |-> "match", coordinates |-> c] : c \in GeoCoords}
  \cup {[kind |-> "nomatch",
          coordinates |-> [lat |-> REF_LAT + j[1], lng |-> REF_LNG + j[2]]] :
          j \in JitterPairs}
  \cup {[kind |-> "throw"]}

\* MatchedLocation with the reference point in place of the returned
\* coordinates
MatchedLocation_AtReference(order, i, newId, coords, isDepot) ==
  [id |-> newId,
   name |-> IF order.customerName # EmptyStr THEN order.customerName
            ELSE ImportDefaultName(i),
   coordinates |-> [lat |-> REF_LAT, lng |-> REF_LNG],
   address |-> order.address,
   customerName |-> order.customerName,
   phoneNumber |-> order.phoneNumber,
   zone |-> order.zone,
   isDepot |-> isDepot]

\* the stop pushed for a match (part_000:147-156)
MatchedLocation(order, i, newId, coords, isDepot) ==
  [id |-> newId,
   name |-> IF order.customerName # EmptyStr THEN order.customerName
            ELSE ImportDefaultName(i),
   coordinates |-> coords,
   address |-> order.address,
   customerName |-> order.customerName,
   phoneNumber |-> order.phoneNumber,
   zone |-> order.zone,
   isDepot |-> isDepot]

\* FallbackLocation with the zone of the order kept
FallbackLocation_KeepsZone(order, newId, coords, isDepot) ==
  [id |-> newId,
   name |-> [(IF order.customerName # EmptyStr THEN order.customerName
              ELSE Str("Unknown")) EXCEPT !.tail = @ \o UNRESOLVED_SUFFIX],
   coordinates |-> coords,
   address |-> order.address,
   customerName |-> order.customerName,
   phoneNumber |-> order.phoneNumber,
   zone |-> order.zone,
   isDepot |-> isDepot]

\* the stop pushed when the service returns no match (part_000:158-167)
FallbackLocation(order, newId, coords, isDepot) ==
  [id |-> newId,
   name |-> [(IF order.customerName # EmptyStr THEN order.customerName
              ELSE Str("Unknown")) EXCEPT !.tail = @ \o UNRESOLVED_SUFFIX],
   coordinates |-> coords,
   address |-> order.address,
   customerName |-> order.customerName,
   phoneNumber |-> order.phoneNumber,
   zone |-> "Unresolved",
   isDepot |-> isDepot]

\* PushGeocoded with isDepot = (i === 0), the emptiness of the registry ignored
PushGeocoded_DepotEveryBatch(newLocs, order, i, outcome, isFirst, newId) ==
  IF outcome.kind = "match"
  THEN Append(newLocs, MatchedLocation(order, i, newId, outcome.coordinates, i = 0))
  ELSE IF outcome.kind = "nomatch"
       THEN Append(newLocs, FallbackLocation(order, newId, outcome.coordinates, i = 0))
       ELSE newLocs

\* PushGeocoded with the first stop produced flagged depot, whichever order
\* it comes from
PushGeocoded_FirstPushedIsDepot(newLocs, order, i, outcome, isFirst, newId) ==
  IF outcome.kind = "match"
  THEN Append(newLocs, MatchedLocation(order, i, newId, outcome.coordinates,
                                       isFirst /\ Len(newLocs) = 0))
  ELSE IF outcome.kind = "nomatch"
       THEN Append(newLocs, FallbackLocation(order, newId, outcome.coordinates,
                                             isFirst /\ Len(newLocs) = 0))
       ELSE newLocs

\* newLocations after the request for order i has ended (part_000:139-171)
PushGeocoded(newLocs, order, i, outcome, isFirst, newId) ==
  LET isDepot == isFirst /\ i = 0
  IN IF outcome.kind = "match"
     THEN Append(newLocs, MatchedLocation(order, i, newId, outcome.coordinates, isDepot))
     ELSE IF outcome.kind = "nomatch"
          THEN Append(newLocs, FallbackLocation(order, newId, outcome.coordinates, isDepot))
          ELSE newLocs

\* handleImportOrders up to its first await (part_000:124-127); the handler
\* closes over the locations of the render it was created in
handleImportOrders ==
  /\ importingStatus' = StatusParsing
  /\ importTask' = [pc |-> "parsing", locations |-> locations]
  /\ UNCHANGED <<locations, optimizedRoute, isCalculating, selectedId, error,
                 storage, calcTask>>

\* ImportFailed without the setImportingStatus(null) of line 182
ImportFailed_KeepsStatus ==
  /\ error' = ERR_IMPORT
  /\ importTask' = IdleImport
  /\ UNCHANGED <<locations, optimizedRoute, isCalculating, importingStatus,
                 selectedId, storage, calcTask>>

\* the catch of handleImportOrders (part_000:179-183)
ImportFailed ==
  /\ error' = ERR_IMPORT
  /\ importingStatus' = StatusNone
  /\ importTask' = IdleImport
  /\ UNCHANGED <<locations, optimizedRoute, isCalculating, selectedId, storage,
                 calcTask>>

\* parseOrdersWithGemini rejects (part_000:127, part_001:109-130)
ParseThrows ==
  /\ importTask.pc = "parsing"
  /\ ImportFailed

\* parseOrdersWithGemini resolves (part_000:127-143): an empty list throws,
\* otherwise the first geocoding request is issued
ParseReturns(parsedOrders) ==
  /\ importTask.pc = "parsing"
  /\ IF Len(parsedOrders) = 0
     THEN ImportFailed
     ELSE /\ importingStatus' = StatusResolving(Len(parsedOrders))
          /\ importTask' = [pc |-> "geocoding",
                            locations |-> importTask.locations,
                            parsedOrders |-> parsedOrders,
                            newLocations |-> <<>>,
                            isFirst |-> Len(importTask.locations) = 0,
                            data |-> <<>>,
                            i |-> 0]
          /\ UNCHANGED <<locations, optimizedRoute, isCalculating, selectedId,
                         error, storage, calcTask>>

\* GeocodeReturns with the delay left out behind a request that threw: the
\* next request is issued at once
GeocodeReturns_NoDelayAfterThrow(outcome) ==
  /\ importTask.pc = "geocoding"
  /\ LET i == importTask.i
         order == importTask.parsedOrders[i + 1]
         newId == generateId(UsedIds)
         skip == outcome.kind = "throw" /\ i + 1 < Len(importTask.parsedOrders)
     IN importTask' = [importTask EXCEPT
                         !.pc = IF skip THEN "geocoding" ELSE "delay",
                         !.i = IF skip THEN @ + 1 ELSE @,
                         !.data = Append(@, outcome.kind),
                         !.newLocations = PushGeocoded(@, order, i, outcome,
                                                       importTask.isFirst, newId)]
  /\ UNCHANGED <<locations, optimizedRoute, isCalculating, importingStatus,
                 selectedId, error, storage, calcTask>>

\* the geocoding request for order i ends and the delay starts
\* (part_000:143-173); data keeps what each request so far has yielded: the
\* data of line 144 with or without a first element, or the throw that line
\* 170 logs
GeocodeReturns(outcome) ==
  /\ importTask.pc = "geocoding"
  /\ LET i == importTask.i
         order == importTask.parsedOrders[i + 1]
         newId == generateId(UsedIds)
     IN importTask' = [importTask EXCEPT
                         !.pc = "delay",
                         !.data = Append(@, outcome.kind),
                         !.newLocations = PushGeocoded(@, order, i, outcome,
                                                       importTask.isFirst, newId)]
  /\ UNCHANGED <<locations, optimizedRoute, isCalculating, importingStatus,
                 selectedId, error, storage, calcTask>>

\* DelayElapsed with the batch appended to the locations the handler closed
\* over when the import started
DelayElapsed_FromSnapshot ==
  /\ importTask.pc = "delay"
  /\ IF importTask.i + 1 < Len(importTask.parsedOrders)
     THEN /\ importTask' = [importTask EXCEPT !.pc = "geocoding", !.i = @ + 1]
          /\ UNCHANGED <<locations, importingStatus, storage>>
     ELSE /\ locations' = importTask.locations \o importTask.newLocations
          /\ storage' = Persisted(locations', optimizedRoute)
          /\ importingStatus' = StatusNone
          /\ importTask' = IdleImport
  /\ UNCHANGED <<optimizedRoute, isCalculating, selectedId, error, calcTask>>

\* the 800 ms delay ends (part_000:173-177): the next request is issued, or
\* after the last order the batch is appended to the latest locations
DelayElapsed ==
  /\ importTask.pc = "delay"
  /\ IF importTask.i + 1 < Len(importTask.parsedOrders)
     THEN /\ importTask' = [importTask EXCEPT !.pc = "geocoding", !.i = @ + 1]
          /\ UNCHANGED <<locations, importingStatus, storage>>
     ELSE /\ locations' = locations \o importTask.newLocations
          /\ storage' = Persisted(locations', optimizedRoute)
          /\ importingStatus' = StatusNone
          /\ importTask' = IdleImport
  /\ UNCHANGED <<optimizedRoute, isCalculating, selectedId, error, calcTask>>

-----------------------------------------------------------------------------
(* Page reload: the component is constructed again (part_000:19-49) from   *)
(* the persisted record; flows in flight are gone with the old page.       *)

\* Reload with a parse failure surfaced as an error message
Reload_SurfacesError ==
  /\ locations' = InitLocations(storage)
  /\ optimizedRoute' = InitRoute(storage)
  /\ isCalculating' = FALSE
  /\ importingStatus' = StatusNone
  /\ selectedId' = NoId
  /\ error' = IF storage.present /\ ~storage.parses THEN "load failed" ELSE NoError
  /\ storage' = Persisted(locations', optimizedRoute')
  /\ importTask' = IdleImport
  /\ calcTask' = IdleCalc

\* the text under the key is replaced or deleted from outside the component
\* (another release of the page, the browser's tools); the page in front of
\* the dispatcher is not touched
StorageReplaced(text) ==
  /\ storage' = text
  /\ UNCHANGED <<locations, optimizedRoute, isCalculating, importingStatus,
                 selectedId, error, importTask, calcTask>>

Reload ==
  /\ locations' = InitLocations(storage)
  /\ optimizedRoute' = InitRoute(storage)
  /\ isCalculating' = FALSE
  /\ importingStatus' = StatusNone
  /\ selectedId' = NoId
  /\ error' = NoError
  /\ storage' = Persisted(locations', optimizedRoute')
  /\ importTask' = IdleImport
  /\ calcTask' = IdleCalc

-----------------------------------------------------------------------------
(* The dispatcher's actions and the specifications.                        *)

\* the calculate button without its disabled attribute
CalcButtonEnabled_Always == TRUE

\* the calculate button (Sidebar.tsx:400-403)
CalcButtonEnabled == ~(Len(locations) < 2 \/ isCalculating)

Click == \E c \in ClickCoords : UIFree /\ handleMapClick(c)
Remove == \E i \in 1..Len(locations) : UIFree /\ handleRemoveLocation(locations[i].id)
Reset == \E confirmed \in BOOLEAN : UIFree /\ handleReset(confirmed)
Select == \E i \in 1..Len(locations) : UIFree /\ onLocationSelect(locations[i].id)
Calculate == UIFree /\ CalcButtonEnabled /\ handleCalculateRoute
Import == UIFree /\ handleImportOrders

\* the asynchronous continuations other than the service answers
Flows ==
  \/ OptimizeThrows
  \/ /\ calcTask.pc = "routing"
     /\ \E outcome \in MirrorOutcomes(calcTask.ordered) : MirrorAnswers(outcome)
  \/ ParseThrows
  \/ \E outcome \in GeocodeOutcomes : GeocodeReturns(outcome)
  \/ DelayElapsed

\* Spec: the answers of the optimization service explored: a usable one in
\* list order, and one without stats
MainResponses(locs) ==
  {[optimizedOrder |-> IdsOf(locs), hasSegments |-> TRUE, hasStats |-> TRUE],
   [optimizedOrder |-> IdsOf(locs), hasSegments |-> TRUE, hasStats |-> FALSE]}

\* Spec: every action, on lists kept to at most MaxLen stops, with orders
\* that carry a customer name
Next ==
  \/ Len(locations) < MaxLen /\ Click
  \/ Remove
  \/ Reset
  \/ Select
  \/ dismissError
  \/ Calculate
  \/ Len(locations) < MaxLen /\ Import
  \/ /\ calcTask.pc = "optimizing"
     /\ \E resp \in MainResponses(calcTask.locations) : OptimizeReturns(resp)
  \/ \E parsedOrders \in NamedOrderLists :
       /\ Len(parsedOrders) <= MaxLen - Len(locations)
       /\ ParseReturns(parsedOrders)
  \/ Flows
  \/ Reload

Spec == Init /\ [][Next]_vars

\* SpecLimit: map clicks fill the list up to the limit; from NearLimit stops
\* on, the dispatcher also selects, calculates and imports
NearLimit == MaxStops - MaxOrders + 1

SelectEnds ==
  \E i \in {1, Len(locations)} : UIFree /\ onLocationSelect(locations[i].id)

NextLimit ==
  \/ Click
  \/ Len(locations) >= NearLimit /\ SelectEnds
  \/ Len(locations) >= NearLimit /\ Calculate
  \/ /\ Len(locations) >= NearLimit
     /\ Len(locations) <= MaxStops + ImportSlack
     /\ Import
  \/ dismissError
  \/ /\ calcTask.pc = "optimizing"
     /\ \E resp \in MainResponses(calcTask.locations) : OptimizeReturns(resp)
  \/ \E parsedOrders \in NamedOrderLists : ParseReturns(parsedOrders)
  \/ Flows

SpecLimit == Init /\ [][NextLimit]_vars

\* SpecImport: clicks, removals, resets and imports of orders with every
\* kind of customer name, on lists kept to at most MaxLen stops
NextImport ==
  \/ Len(locations) < MaxLen /\ Click
  \/ Remove
  \/ Reset
  \/ Len(locations) < MaxLen /\ Import
  \/ ParseThrows
  \/ \E parsedOrders \in AnyNameOrderLists :
       /\ Len(parsedOrders) <= MaxLen - Len(locations)
       /\ ParseReturns(parsedOrders)
  \/ \E outcome \in GeocodeOutcomes : GeocodeReturns(outcome)
  \/ DelayElapsed
  \/ dismissError

SpecImport == Init /\ [][NextImport]_vars

\* SpecStartup: clicks, removals and calculations, and restarts of the page
\* on whatever the storage key holds then: the record the page wrote, a text
\* that is not JSON, or nothing
NextStartup ==
  \/ Len(locations) < MaxLen /\ Click
  \/ Remove
  \/ Calculate
  \/ OptimizeThrows
  \/ /\ calcTask.pc = "optimizing"
     /\ \E resp \in MainResponses(calcTask.locations) : OptimizeReturns(resp)
  \/ /\ calcTask.pc = "routing"
     /\ \E outcome \in MirrorOutcomes(calcTask.ordered) : MirrorAnswers(outcome)
  \/ \E text \in {Absent, Unparseable} : UIFree /\ StorageReplaced(text)
  \/ Reload

SpecStartup == Init /\ [][NextStartup]_vars

\* the calculate handler called whatever the length of the list, the
\* button's disabled attribute left aside
CalculateAny == UIFree /\ handleCalculateRoute

\* SpecCalc: clicks and removals on lists of at most MaxLen stops, the
\* calculate handler on each of them, and every answer of the optimization
\* service
NextCalc ==
  \/ Len(locations) < MaxLen /\ Click
  \/ Remove
  \/ CalculateAny
  \/ OptimizeThrows
  \/ /\ calcTask.pc = "optimizing"
     /\ \E resp \in ServiceResponses(calcTask.locations) : OptimizeReturns(resp)
  \/ /\ calcTask.pc = "routing"
     /\ \E outcome \in MirrorOutcomes(calcTask.ordered) : MirrorAnswers(outcome)
  \/ dismissError

SpecCalc == Init /\ [][NextCalc]_vars

\* SpecRoute: clicks, removals and calculations on lists of at most MaxLen
\* stops that hold no Route Result yet, with every usable route a mirror
\* may answer with
NextRoute ==
  \/ Len(locations) < MaxLen /\ Click
  \/ Remove
  \/ ~optimizedRoute.present /\ Calculate
  \/ /\ calcTask.pc = "optimizing"
     /\ \E resp \in MainResponses(calcTask.locations) : OptimizeReturns(resp)
  \/ /\ calcTask.pc = "routing"
     /\ \E outcome \in AnyMirrorOutcomes(calcTask.ordered) : MirrorAnswers(outcome)
  \/ dismissError

SpecRoute == Init /\ [][NextRoute]_vars

\* the remove handler reached while a flow is in flight: the handler has no
\* guard of its own (part_000:86-105) and the overlays take pointer events
\* only (part_000:232-256), so an activation of a focused remove button from
\* the keyboard (Sidebar.tsx:335) calls it
RemoveByKey ==
  \E i \in 1..Len(locations) : handleRemoveLocation(locations[i].id)

\* SpecInterleave: imports of named orders on lists of at most MaxLen stops,
\* with removals also while an import is in flight
NextInterleave ==
  \/ Len(locations) < MaxLen /\ Click
  \/ RemoveByKey
  \/ Len(locations) < MaxLen /\ Import
  \/ ParseThrows
  \/ \E parsedOrders \in NamedOrderLists :
       /\ Len(parsedOrders) <= MaxLen - Len(locations)
       /\ ParseReturns(parsedOrders)
  \/ \E outcome \in GeocodeOutcomes : GeocodeReturns(outcome)
  \/ DelayElapsed
  \/ dismissError

SpecInterleave == Init /\ [][NextInterleave]_vars

\* the steps of a calculation in flight that an answer of a service, or its
\* failure, brings about
CalcSteps ==
  \/ OptimizeThrows
  \/ /\ calcTask.pc = "optimizing"
     /\ \E resp \in MainResponses(calcTask.locations) : OptimizeReturns(resp)
  \/ /\ calcTask.pc = "routing"
     /\ \E outcome \in MirrorOutcomes(calcTask.ordered) : MirrorAnswers(outcome)

\* the steps of an import in flight: an answer of a service, its failure, or
\* the timer
ImportSteps ==
  \/ ParseThrows
  \/ \E parsedOrders \in NamedOrderLists :
       /\ Len(parsedOrders) <= MaxLen - Len(locations)
       /\ ParseReturns(parsedOrders)
  \/ \E outcome \in GeocodeOutcomes : GeocodeReturns(outcome)
  \/ DelayElapsed

\* SpecLive: clicks, calculations and imports on lists of at most MaxLen
\* stops; every awaited call settles and every timer fires (await of
\* part_000:114, :127, :143-144, :173 and part_001:45, :49, :250)
NextLive ==
  \/ Len(locations) < MaxLen /\ Click
  \/ Calculate
  \/ Len(locations) < MaxLen /\ Import
  \/ CalcSteps
  \/ ImportSteps
  \/ dismissError

SpecLive ==
  Init /\ [][NextLive]_vars /\ WF_vars(CalcSteps) /\ WF_vars(ImportSteps)

-----------------------------------------------------------------------------
(* Properties.                                                             *)

Depots(locs) == {i \in 1..Len(locs) : locs[i].isDepot}

\* a map click that is accepted: the list is below the limit
ClickAdds(coords) == Len(locations) < MaxStops /\ handleMapClick(coords)

\* C1: whenever the set of stops in the registry changes (by click, remove,
\* reset or an import's append), the Route Result is none afterwards, so a
\* present Route Result always belongs to the current stop set.
C1_RouteNeverStale ==
  [][IdSet(locations)' # IdSet(locations) => optimizedRoute' = NullRoute]_vars

\* C2: right after each accepted map-click add, each remove and each
\* confirmed reset the Route Result is none, whatever it was before.
C2_MutationClearsRoute ==
  [][((\E c \in ClickCoords : ClickAdds(c))
       \/ (\E i \in 1..Len(locations) : handleRemoveLocation(locations[i].id))
       \/ handleReset(TRUE))
     => optimizedRoute' = NullRoute]_vars

\* a Route Result is shown and the dispatcher can click, remove and reset
C2_Witness ==
  /\ optimizedRoute.present
  /\ Len(locations) = 2
  /\ ENABLED (Len(locations) < MaxLen /\ Click)
  /\ ENABLED Remove
  /\ ENABLED Reset

C4_NonEmptyHasDepot ==
  Len(locations) > 0 => locations[1].isDepot

\* C5: the stop list never holds more than 30 stops.
C5_AtMostMaxStops ==
  Len(locations) <= MaxStops

\* C6: a map click on a list of 30 or more stops sets the error message and
\* changes nothing else.
C6_ClickAtLimitOnlySetsError ==
  [][\A c \in ClickCoords :
       (Len(locations) >= MaxStops /\ handleMapClick(c))
       => /\ error' = ERR_LIMIT
          /\ UNCHANGED <<locations, optimizedRoute, selectedId, storage,
                         isCalculating, importingStatus>>]_vars

\* a click was rejected on a full list that shows a Route Result and whose
\* first stop is selected
C6_Witness ==
  /\ Len(locations) = MaxStops
  /\ error = ERR_LIMIT
  /\ optimizedRoute.present
  /\ selectedId = locations[1].id

\* C7: an accepted map click appends exactly one stop, selects it, flags and
\* labels it as depot if the list was empty and as an auto-numbered non-depot
\* stop otherwise, and leaves the earlier stops as they were.
C7_ClickAppendsOneStop ==
  [][\A c \in ClickCoords :
       ClickAdds(c)
       => LET n == Len(locations)
              new == locations'[n + 1]
          IN /\ Len(locations') = n + 1
             /\ SubSeq(locations', 1, n) = locations
             /\ new.id \notin IdSet(locations)
             /\ new.coordinates = c
             /\ selectedId' = new.id
             /\ n = 0 => new.isDepot /\ new.name = DEPOT_NAME
             /\ n > 0 => ~new.isDepot /\ startsWithAutoPrefix(new.name)
                         /\ new.name.num # NoNum]_vars

\* a click added a stop behind an imported one and selected it
C7_Witness ==
  /\ Len(locations) = 3
  /\ locations[2].customerName # UndefinedStr
  /\ locations[3].customerName = UndefinedStr
  /\ locations[3].name = AutoName(2)
  /\ selectedId = locations[3].id
  /\ ~optimizedRoute.present

\* C8: every stop flagged depot carries the fixed depot label, the first
\* order of an import into an empty registry included.
C8_DepotHasDepotLabel ==
  \A i \in 1..Len(locations) : locations[i].isDepot => locations[i].name = DEPOT_NAME

\* C9: removing the depot while another stop remains promotes exactly the
\* earliest remaining stop, whose label becomes the fixed depot label.
C9_RemoveDepotPromotesEarliest ==
  [][\A i \in 1..Len(locations) :
       (/\ locations[i].isDepot
        /\ Len(locations) >= 2
        /\ handleRemoveLocation(locations[i].id))
       => LET earliest == IF i = 1 THEN locations[2] ELSE locations[1]
          IN /\ Depots(locations') = {1}
             /\ locations'[1].id = earliest.id
             /\ locations'[1].name = DEPOT_NAME]_vars

\* an imported stop whose label carried the unresolved marker stands first,
\* flagged depot and under the fixed depot label, with a stop behind it
C9_Witness ==
  /\ Len(locations) = 2
  /\ locations[1].isDepot
  /\ locations[1].name = DEPOT_NAME
  /\ locations[1].zone = "Unresolved"

\* three stops added by map clicks to an empty registry
ClickedABC ==
  /\ Len(locations) = 3
  /\ \A i \in 1..3 : locations[i].customerName = UndefinedStr
  /\ locations[1].isDepot /\ locations[1].name = DEPOT_NAME
  /\ locations[2].name = AutoName(1)
  /\ locations[3].name = AutoName(2)

\* the zero-based position of stop i among the non-depot stops
IndexAmongNonDepot(locs, i) == Cardinality({j \in 1..(i - 1) : ~locs[j].isDepot})

\* C10 as stated: the index of an auto-numbered label is the zero-based
\* position among the non-depot stops, at creation by click and after a
\* removal; add A, B, C, remove B leaves C with index 0.
C10_IndexAmongNonDepot ==
  [][/\ \A c \in ClickCoords :
          (Len(locations) > 0 /\ ClickAdds(c))
          => locations'[Len(locations')].name
               = AutoName(IndexAmongNonDepot(locations', Len(locations')))
     /\ \A i \in 1..Len(locations) :
          handleRemoveLocation(locations[i].id)
          => \A j \in 1..Len(locations') :
               (~locations'[j].isDepot /\ startsWithAutoPrefix(locations'[j].name))
               => locations'[j].name = AutoName(IndexAmongNonDepot(locations', j))
     /\ (ClickedABC /\ handleRemoveLocation(locations[2].id))
          => locations'[2].name = AutoName(0)]_vars

\* C10 amended: the index of an auto-numbered label is the zero-based
\* position in the whole stop list, at creation by click and after a removal;
\* add A, B, C, remove B leaves A as depot and C with index 1.
C10_IndexInWholeList ==
  [][/\ \A c \in ClickCoords :
          (Len(locations) > 0 /\ ClickAdds(c))
          => locations'[Len(locations')].name = AutoName(Len(locations') - 1)
     /\ \A i \in 1..Len(locations) :
          handleRemoveLocation(locations[i].id)
          => \A j \in 1..Len(locations') :
               (~locations'[j].isDepot /\ startsWithAutoPrefix(locations'[j].name))
               => locations'[j].name = AutoName(j - 1)
     /\ (ClickedABC /\ handleRemoveLocation(locations[2].id))
          => /\ Len(locations') = 2
             /\ locations'[1] = locations[1]
             /\ locations'[2].id = locations[3].id
             /\ ~locations'[2].isDepot
             /\ locations'[2].name = AutoName(1)]_vars

\* A and C are left of three clicked stops: the second was removed
C10_Witness ==
  /\ Len(locations) = 2
  /\ \A i \in 1..2 : locations[i].customerName = UndefinedStr
  /\ locations[1].isDepot /\ locations[1].name = DEPOT_NAME /\ locations[1].zone = "HQ"
  /\ locations[2].id > locations[1].id + 1
  /\ locations[2].name = AutoName(1)

\* the label has the form of an auto-numbered label: the prefix, a number,
\* nothing else
MatchesAutoPattern(name) ==
  name.head = AUTO_PREFIX /\ name.num # NoNum /\ name.tail = ""

\* C11: a removal leaves the label of every remaining stop whose label is not
\* of the auto-numbered form as it was, unless the stop is the one that moves
\* to the front in place of the removed first stop.
C11_RemoveKeepsCustomLabels ==
  [][\A i \in 1..Len(locations) :
       handleRemoveLocation(locations[i].id)
       => \A j \in 1..Len(locations) :
            (/\ j # i
             /\ ~MatchesAutoPattern(locations[j].name)
             /\ ~(i = 1 /\ j = 2))
            => locations'[IF j < i THEN j ELSE j - 1].name = locations[j].name]_vars

\* C12: a confirmed reset leaves the stop list empty, the Route Result none,
\* the selection none and the error cleared; a declined reset changes nothing.
C12_ResetClearsOrKeeps ==
  [][/\ handleReset(TRUE)
          => /\ locations' = <<>>
             /\ optimizedRoute' = NullRoute
             /\ selectedId' = NoId
             /\ error' = NoError
     /\ handleReset(FALSE) => UNCHANGED vars]_vars

\* the dispatcher can reset while stops, a Route Result, a selection and an
\* error message are all present
C12_Witness ==
  /\ Len(locations) >= 2
  /\ optimizedRoute.present
  /\ selectedId # NoId
  /\ error # NoError
  /\ ENABLED Reset

\* C13: once a confirmed reset and the persistence effect it triggers have
\* run, the storage key is absent.
C13_ResetRemovesKey ==
  [][handleReset(TRUE) => storage' = Absent]_vars

C15_CorruptStartsEmpty ==
  [][/\ InitLocations(Unparseable) = InitLocations(Absent)
     /\ InitRoute(Unparseable) = InitRoute(Absent)
     /\ (storage \in {Unparseable, Absent} /\ Reload)
          => /\ locations' = <<>>
             /\ optimizedRoute' = NullRoute
             /\ error' = NoError
             /\ selectedId' = NoId]_vars

\* the stored text is not JSON while the page shows stops, a Route Result and
\* an error message; the page can be restarted
C15_Witness ==
  /\ storage = Unparseable
  /\ Len(locations) >= 2
  /\ optimizedRoute.present
  /\ error # NoError
  /\ ENABLED Reload

\* C16: the calculate handler called on a list of fewer than 2 stops starts
\* no call of the optimization service and changes no state.
C16_CalculateNeedsTwoStops ==
  [][(Len(locations) < 2 /\ handleCalculateRoute) => UNCHANGED vars]_vars

\* one stop is left, selected, under an error message, and nothing is in
\* flight: the handler can be called
C16_Witness ==
  /\ Len(locations) = 1
  /\ selectedId = locations[1].id
  /\ error # NoError
  /\ calcTask = IdleCalc
  /\ ENABLED CalculateAny

\* C17: when the optimization call throws or its answer has no stats, the
\* Route Result stays what it was, an error message is set, and the stop
\* list and the selection are unchanged.
C17_FailureKeepsRoute ==
  [][(/\ calcTask.pc = "optimizing"
      /\ \/ OptimizeThrows
         \/ \E resp \in ServiceResponses(calcTask.locations) :
              ~resp.hasStats /\ OptimizeReturns(resp))
     => /\ optimizedRoute' = optimizedRoute
        /\ error' = ERR_CALC
        /\ ~isCalculating'
        /\ UNCHANGED <<locations, selectedId, storage>>]_vars

\* a calculation has failed on a list that still shows the Route Result of
\* an earlier calculation
C17_Witness ==
  /\ optimizedRoute.present
  /\ error = ERR_CALC
  /\ ~isCalculating
  /\ selectedId # NoId

\* C18: when the road routing fails on every mirror the calculation still
\* succeeds: the new order, segments and stats are stored with empty path
\* geometry and empty navigation steps, and no error is set.
C18_RoutingFailureStillSucceeds ==
  [][(calcTask.pc = "routing" /\ RouteDataReturns(NoRouteData))
     => /\ optimizedRoute'.present
        /\ optimizedRoute'.optimizedOrder = calcTask.result.optimizedOrder
        /\ optimizedRoute'.segments = calcTask.result.segments
        /\ optimizedRoute'.stats = calcTask.result.stats
        /\ optimizedRoute'.pathPolyline = <<>>
        /\ optimizedRoute'.navigationInstructions = <<>>
        /\ error' = NoError
        /\ ~isCalculating']_vars

\* a Route Result over three stops was stored after the road routing was
\* tried and gave nothing
C18_Witness ==
  /\ optimizedRoute.present
  /\ optimizedRoute.hasPath
  /\ optimizedRoute.pathPolyline = <<>>
  /\ Len(optimizedRoute.optimizedOrder) = 3
  /\ Len(optimizedRoute.segments) = 2
  /\ error = NoError
  /\ ~isCalculating

\* a calculation ends in success: the in-flight flag falls and no error is set
CalcSucceeds == isCalculating /\ ~isCalculating' /\ error' = NoError

\* C19: after every successful calculation the stored order begins with the
\* depot's id, whatever order the optimization service returned.
C19_OrderStartsAtDepot ==
  [][CalcSucceeds
     => /\ optimizedRoute'.present
        /\ Len(optimizedRoute'.optimizedOrder) > 0
        /\ optimizedRoute'.optimizedOrder[1] = DepotOf(locations).id]_vars

\* the order a calculation is about to install or to route: that of the
\* result handed to fetchRouteData, or that of the Route Result just stored
DecidedOrder ==
  IF calcTask'.pc = "routing" THEN calcTask'.result.optimizedOrder
  ELSE optimizedRoute'.optimizedOrder

\* C20: a returned order that is not empty and lacks the depot's id becomes
\* the depot's id followed by the returned order as it was.
C20_MissingDepotPrepended ==
  [][calcTask.pc = "optimizing"
     => \A resp \in ServiceResponses(calcTask.locations) :
          (/\ resp.hasStats
           /\ Len(resp.optimizedOrder) > 0
           /\ ~Includes(resp.optimizedOrder, DepotOf(calcTask.locations).id)
           /\ OptimizeReturns(resp))
          => DecidedOrder = <<DepotOf(calcTask.locations).id>> \o resp.optimizedOrder]_vars

\* the Route Result of three stops holds the depot's id in front of an order
\* that lacked it and named a stop that does not exist
C20_Witness ==
  /\ optimizedRoute.present
  /\ Len(locations) = 3
  /\ Len(optimizedRoute.optimizedOrder) = 4
  /\ optimizedRoute.optimizedOrder[1] = locations[1].id
  /\ optimizedRoute.optimizedOrder[4] = GhostId

\* the order without the occurrences of one id
Without(order, id) == SelectSeq(order, LAMBDA x : x # id)

\* C21: a returned order that holds the depot's id at a position other than
\* the first becomes the depot's id followed by the other ids in their
\* returned order.
C21_DepotMovedToFront ==
  [][calcTask.pc = "optimizing"
     => \A resp \in ServiceResponses(calcTask.locations) :
          (/\ resp.hasStats
           /\ Len(resp.optimizedOrder) > 0
           /\ resp.optimizedOrder[1] # DepotOf(calcTask.locations).id
           /\ Includes(resp.optimizedOrder, DepotOf(calcTask.locations).id)
           /\ OptimizeReturns(resp))
          => DecidedOrder
               = <<DepotOf(calcTask.locations).id>>
                 \o Without(resp.optimizedOrder, DepotOf(calcTask.locations).id)]_vars

\* C22: a present Route Result with a non-empty order names no id twice and
\* no id that the stop list does not hold.
C22_OrderWithinStops ==
  (optimizedRoute.present /\ Len(optimizedRoute.optimizedOrder) > 0)
  => LET order == optimizedRoute.optimizedOrder
     IN /\ \A i, j \in 1..Len(order) : order[i] = order[j] => i = j
        /\ \A i \in 1..Len(order) : order[i] \in IdSet(locations)

\* C23: an import whose extraction call throws or returns no order is given
\* up as a whole: no geocoding request is issued, the stop list is unchanged,
\* the import error is set and the status flag is cleared.
C23_FailedExtractionAborts ==
  [][(importTask.pc = "parsing" /\ (ParseThrows \/ ParseReturns(<<>>)))
     => /\ importTask' = IdleImport
        /\ error' = ERR_IMPORT
        /\ importingStatus' = StatusNone
        /\ UNCHANGED <<locations, optimizedRoute, selectedId, storage>>]_vars

\* an import has been given up on a list of two stops, one of them selected
C23_Witness ==
  /\ error = ERR_IMPORT
  /\ importingStatus = StatusNone
  /\ importTask = IdleImport
  /\ Len(locations) = 2
  /\ selectedId # NoId

\* text.endsWith(suffix)
endsWith(text, suffix) ==
  /\ Len(text) >= Len(suffix)
  /\ SubSeq(text, Len(text) - Len(suffix) + 1, Len(text)) = suffix

\* the stop carries the unresolved marker: the label suffix and the zone
HasUnresolvedMarker(l) ==
  endsWith(l.name.tail, UNRESOLVED_SUFFIX) /\ l.zone = "Unresolved"

\* the stop carries no part of the unresolved marker
HasNoUnresolvedMarker(l) ==
  ~endsWith(l.name.tail, UNRESOLVED_SUFFIX) /\ l.zone # "Unresolved"

\* the last delay of an import ends: the batch is appended (part_000:176)
ImportAppends ==
  /\ importTask.pc = "delay"
  /\ importTask.i + 1 = Len(importTask.parsedOrders)
  /\ DelayElapsed

\* the stops an appending step has put behind the earlier ones
Appended == SubSeq(locations', Len(locations) + 1, Len(locations'))

\* the positions of the requests of the import in flight that yielded kind
RequestsYielding(kind) ==
  {k \in 1..Len(importTask.data) : importTask.data[k] = kind}

\* C24: an import of N orders whose requests all return a match appends
\* exactly N stops in the order of the orders, each at the returned
\* coordinates with the order's customer fields, none with the unresolved
\* marker.
C24_AllMatchedAppendsAll ==
  [][(ImportAppends
      /\ RequestsYielding("match") = 1..Len(importTask.parsedOrders))
     => LET N == Len(importTask.parsedOrders)
        IN /\ Len(locations') = Len(locations) + N
           /\ SubSeq(locations', 1, Len(locations)) = locations
           /\ \A k \in 1..N :
                /\ Appended[k].coordinates \in GeoCoords
                /\ Appended[k].customerName = importTask.parsedOrders[k].customerName
                /\ Appended[k].address = importTask.parsedOrders[k].address
                /\ Appended[k].id \notin IdSet(locations)
                /\ HasNoUnresolvedMarker(Appended[k])
           /\ \A k, m \in 1..N : Appended[k].id = Appended[m].id => k = m]_vars

\* two geocoded stops of orders with different customer names stand behind a
\* clicked depot, and no import is in flight
C24_Witness ==
  /\ importTask = IdleImport
  /\ Len(locations) = 3
  /\ locations[1].customerName = UndefinedStr
  /\ \A k \in 2..3 :
       /\ locations[k].coordinates \in GeoCoords
       /\ HasNoUnresolvedMarker(locations[k])
  /\ locations[2].customerName = NamedOrder.customerName
  /\ locations[3].customerName = UnnamedOrder.customerName

\* C25: an import of N orders in which exactly one request returns no match
\* and the others a match appends N stops, of which exactly the one of that
\* order carries the unresolved marker and lies in the jitter range of the
\* reference point.
C25_OneUnmatchedIsMarked ==
  [][(/\ ImportAppends
      /\ Cardinality(RequestsYielding("nomatch")) = 1
      /\ RequestsYielding("throw") = {})
     => LET N == Len(importTask.parsedOrders)
        IN /\ Len(locations') = Len(locations) + N
           /\ SubSeq(locations', 1, Len(locations)) = locations
           /\ \A k \in 1..N :
                IF k \in RequestsYielding("nomatch")
                THEN /\ HasUnresolvedMarker(Appended[k])
                     /\ Appended[k].coordinates.lat - REF_LAT \in 0..99
                     /\ Appended[k].coordinates.lng - REF_LNG \in 0..99
                     /\ Appended[k].address = importTask.parsedOrders[k].address
                ELSE /\ HasNoUnresolvedMarker(Appended[k])
                     /\ Appended[k].coordinates \in GeoCoords]_vars

\* a geocoded stop is followed by a stop with the unresolved marker near the
\* reference point, and no import is in flight
C25_Witness ==
  /\ importTask = IdleImport
  /\ Len(locations) = 2
  /\ locations[1].customerName # UndefinedStr
  /\ HasNoUnresolvedMarker(locations[1])
  /\ HasUnresolvedMarker(locations[2])
  /\ locations[2].coordinates.lat >= REF_LAT

\* C26: an import of N orders in which exactly one request throws appends N
\* stops, the one of that order carrying the unresolved marker.
C26_FailedRequestLeavesPlaceholder ==
  [][(ImportAppends /\ Cardinality(RequestsYielding("throw")) = 1)
     => LET N == Len(importTask.parsedOrders)
        IN /\ Len(locations') = Len(locations) + N
           /\ \A k \in RequestsYielding("throw") : HasUnresolvedMarker(Appended[k])]_vars

C29_OneCalculationInFlight ==
  /\ calcTask.pc # "idle" <=> isCalculating
  /\ ENABLED Calculate
       => Len(locations) >= 2 /\ ~isCalculating /\ calcTask = IdleCalc

\* a recalculation is in flight on a list that shows a Route Result
C29_Witness ==
  /\ isCalculating
  /\ calcTask.pc = "routing"
  /\ optimizedRoute.present
  /\ Len(locations) >= 2
  /\ ~ENABLED Calculate

\* C30: the mirrors are asked in their fixed order, one at a time: the
\* mirrors asked so far are a beginning of the list; a usable answer ends
\* the loop with its route; a failure of any kind leads to the next mirror
\* and to no other, and behind the last mirror to the empty result, without
\* an error.
C30_MirrorsInOrder ==
  [][calcTask.pc = "routing"
     => LET n == Len(calcTask.queried)
        IN /\ n >= 1
           /\ calcTask.queried = SubSeq(OSRM_SERVERS, 1, n)
           /\ \A outcome \in MirrorOutcomes(calcTask.ordered) :
                MirrorAnswers(outcome)
                => IF outcome.kind = "usable"
                   THEN /\ calcTask' = IdleCalc
                        /\ optimizedRoute'.pathPolyline = RouteDataOf(outcome.route).geometry
                        /\ optimizedRoute'.navigationInstructions = RouteDataOf(outcome.route).steps
                        /\ error' = NoError
                   ELSE IF n < Len(OSRM_SERVERS)
                        THEN /\ calcTask'.pc = "routing"
                             /\ calcTask'.queried = SubSeq(OSRM_SERVERS, 1, n + 1)
                             /\ UNCHANGED <<optimizedRoute, error, isCalculating>>
                        ELSE /\ calcTask' = IdleCalc
                             /\ optimizedRoute'.pathPolyline = <<>>
                             /\ optimizedRoute'.navigationInstructions = <<>>
                             /\ error' = NoError]_vars

\* the first mirror has failed and the second one is being asked
C30_Witness ==
  /\ calcTask.pc = "routing"
  /\ calcTask.queried = OSRM_SERVERS
  /\ Len(calcTask.ordered) = 3
  /\ isCalculating

\* what the flattening is to give for these legs, from the leg with the
\* one-based number n on: each leg's steps in their order, and behind every
\* leg but the last the marker with the leg's number
RECURSIVE StepsAndMarkers(_, _)
StepsAndMarkers(legs, n) ==
  IF n > Len(legs) THEN <<>>
  ELSE (IF legs[n].hasSteps
        THEN [k \in 1..Len(legs[n].steps) |-> LegStep(legs[n].steps[k])]
        ELSE <<>>)
       \o (IF n < Len(legs) THEN <<ArrivalMarker(n - 1)>> ELSE <<>>)
       \o StepsAndMarkers(legs, n + 1)

IsMarker(step) == step.distanceMeters = 0 /\ step.maneuver.type = "arrive"
                  /\ step.instruction # "Destination reached"

\* C31: for a usable routing response with L legs the stored navigation
\* steps are the legs' steps in leg and step order with one arrival marker
\* behind every leg but the last, numbered with the one-based leg number,
\* whether or not the leg carries steps: L-1 markers in all.
C31_MarkerBehindEveryLegButLast ==
  [][calcTask.pc = "routing"
     => \A outcome \in AnyMirrorOutcomes(calcTask.ordered) :
          (outcome.kind = "usable" /\ outcome.route.hasLegs
           /\ Len(outcome.route.legs) >= 1 /\ MirrorAnswers(outcome))
          => LET nav == optimizedRoute'.navigationInstructions
             IN /\ nav = StepsAndMarkers(outcome.route.legs, 1)
                /\ Cardinality({k \in 1..Len(nav) : IsMarker(nav[k])})
                     = Len(outcome.route.legs) - 1]_vars


\* C32: a calculation changes the Route Result at most once and as a whole:
\* the step that changes it is the calculation's last one, it comes after
\* the optimization call and, where a route is asked for, after the road
\* routing, and the stored result holds the new order, segments and stats
\* together with the geometry and steps decided for them.
C32_ResultInstalledOnceAndWhole ==
  [][(calcTask.pc # "idle" /\ optimizedRoute' # optimizedRoute)
     => /\ calcTask' = IdleCalc
        /\ ~isCalculating'
        /\ optimizedRoute'.present
        /\ IF calcTask.pc = "routing"
           THEN \E data \in RouteDataOutcomes(calcTask.ordered) :
                  optimizedRoute' = [calcTask.result EXCEPT
                                       !.hasPath = TRUE,
                                       !.pathPolyline = data.geometry,
                                       !.navigationInstructions = data.steps]
           ELSE /\ calcTask.pc = "optimizing"
                /\ ~optimizedRoute'.hasPath
                /\ \E resp \in ServiceResponses(calcTask.locations) :
                     /\ optimizedRoute' = NormalizedResult(resp, calcTask.locations)
                     /\ Len(OrderedLocations(optimizedRoute'.optimizedOrder,
                                             calcTask.locations)) <= 1]_vars

\* a recalculation has its new order decided and the road routing under
\* way, and the page still holds the whole earlier result
C32_Witness ==
  /\ calcTask.pc = "routing"
  /\ isCalculating
  /\ optimizedRoute.present
  /\ optimizedRoute.hasPath
  /\ optimizedRoute.pathPolyline # <<>>
  /\ optimizedRoute.optimizedOrder # calcTask.result.optimizedOrder

\* C33: the geocoding requests of an import are issued one at a time in the
\* order of the orders: while the request for order i is outstanding the
\* requests for all earlier orders have ended and none for a later order
\* has been issued; whatever the request yields, the delay follows it, and
\* only the end of the delay issues the request for order i+1.
C33_GeocodingOneAtATime ==
  [][/\ importTask.pc = "geocoding"
        => /\ Len(importTask.data) = importTask.i
           /\ importTask.i < Len(importTask.parsedOrders)
           /\ importTask' # importTask
              => /\ importTask'.pc = "delay"
                 /\ importTask'.i = importTask.i
                 /\ Len(importTask'.data) = importTask.i + 1
     /\ importTask.pc = "delay"
        => /\ Len(importTask.data) = importTask.i + 1
           /\ importTask' # importTask
              => IF importTask.i + 1 < Len(importTask.parsedOrders)
                 THEN /\ importTask'.pc = "geocoding"
                      /\ importTask'.i = importTask.i + 1
                      /\ importTask'.data = importTask.data
                 ELSE importTask' = IdleImport
     /\ importTask'.pc = "geocoding"
        => \/ importTask.pc = "parsing" /\ importTask'.i = 0
           \/ importTask.pc = "delay"
           \/ importTask' = importTask]_vars

\* the request for the second order is outstanding after the request for
\* the first one threw and the delay behind it has elapsed
C33_Witness ==
  /\ importTask.pc = "geocoding"
  /\ importTask.i = 1
  /\ importTask.data = <<"throw">>

\* C34: an import leaves the stop list alone while it parses and geocodes
\* and changes it once, in its last step, by putting the produced stops
\* behind the stop list as it is then: a stop removed while the import was
\* in flight stays removed, and no stop of the list at that moment is lost.
C34_AppendsToLatestList ==
  [][(importTask.pc # "idle" /\ importTask' # importTask)
     => IF importTask.pc = "delay"
           /\ importTask.i + 1 = Len(importTask.parsedOrders)
        THEN /\ locations' = locations \o importTask.newLocations
             /\ importTask' = IdleImport
        ELSE locations' = locations]_vars

\* the last delay of an import that produced a stop is running, and the
\* stop list is no longer the one the import was started on
C34_Witness ==
  /\ importTask.pc = "delay"
  /\ importTask.i + 1 = Len(importTask.parsedOrders)
  /\ Len(importTask.newLocations) >= 1
  /\ Len(importTask.locations) = 2
  /\ Len(locations) = 1
  /\ ENABLED DelayElapsed

\* the order of the import status: none, the parsing message, the resolving
\* message, none; a failure of the extraction leads from the parsing
\* message to none
StatusStepsForward ==
  \/ importingStatus = StatusNone /\ importingStatus' = StatusParsing
  \/ /\ importingStatus = StatusParsing
     /\ \E n \in 1..MaxOrders : importingStatus' = StatusResolving(n)
  \/ importingStatus # StatusNone /\ importingStatus' = StatusNone

\* C35: when every awaited call settles, every started calculation ends
\* with isCalculating false and every started import ends with the status
\* none, on success and on failure; the status of an import only moves
\* forward from none to the parsing message to the resolving message to
\* none.
C35_FlowsEndWithFlagsCleared ==
  /\ isCalculating ~> ~isCalculating
  /\ (importingStatus # StatusNone) ~> (importingStatus = StatusNone)
  /\ [][importingStatus' # importingStatus => StatusStepsForward]_vars

\* an import has ended with its stops appended and a later calculation has
\* ended in failure: both flags are cleared
C35_Witness ==
  /\ ~isCalculating
  /\ importingStatus = StatusNone
  /\ error = ERR_CALC
  /\ calcTask = IdleCalc
  /\ importTask = IdleImport
  /\ \E i \in 1..Len(locations) : locations[i].address # Undefined

\* C36: the selection is none or the id of a stop of the list, in every
\* state: a click that adds a stop selects it, removing the selected stop
\* clears the selection, removing another stop leaves it, and a confirmed
\* reset clears it.
C36_SelectionIsNoneOrListed ==
  /\ [](selectedId = NoId \/ selectedId \in IdSet(locations))
  /\ [][/\ \A c \in ClickCoords :
             (Len(locations) < MaxStops /\ handleMapClick(c))
             => /\ Len(locations') = Len(locations) + 1
                /\ selectedId' = locations'[Len(locations')].id
        /\ \A i \in 1..Len(locations) :
             handleRemoveLocation(locations[i].id)
             => selectedId' = IF selectedId = locations[i].id THEN NoId
                              ELSE selectedId
        /\ handleReset(TRUE) => selectedId' = NoId]_vars

\* of three clicked stops the second was removed while the third was
\* selected: the third is still selected
C36_Witness ==
  /\ Len(locations) = 2
  /\ IdsOf(locations) = <<1, 3>>
  /\ selectedId = 3
  /\ locations[2].address = Undefined

\* the stops of the list that are not the depot and carry a label of the
\* auto-numbered form
AutoNumbered(locs) ==
  {j \in 1..Len(locs) : ~locs[j].isDepot /\ MatchesAutoPattern(locs[j].name)}

\* C37: after any clicks, removals, resets and imports the number in the
\* label of every auto-numbered stop that is not the depot is the stop's
\* zero-based position in the whole list, so no two stops carry the same
\* auto-numbered label; and a removal keeps the ids, the coordinates and the
\* relative order of the stops that remain.
C37_LabelNumberIsPosition ==
  /\ [](/\ \A j \in AutoNumbered(locations) : locations[j].name.num = j - 1
        /\ \A j, k \in AutoNumbered(locations) :
             j # k => locations[j].name # locations[k].name)
  /\ [][\A i \in 1..Len(locations) :
          handleRemoveLocation(locations[i].id)
          => LET kept == FilterOutId(locations, locations[i].id)
             IN /\ Len(locations') = Len(locations) - 1
                /\ \A j \in 1..Len(locations') :
                     /\ locations'[j].id = kept[j].id
                     /\ locations'[j].coordinates = kept[j].coordinates]_vars

\* behind the depot stands an imported stop and behind it a clicked stop
\* numbered 2, clicked after the removal of an earlier clicked stop
C37_Witness ==
  /\ Len(locations) = 3
  /\ locations[1].isDepot
  /\ locations[2].address # Undefined
  /\ locations[3].name = AutoName(2)
  /\ locations[3].address = Undefined
  /\ locations[3].id < locations[2].id

====
